---- MODULE Spec2Model ----
(***************************************************************************)
(* The HTTP gateway of backend.py: six Flask routes, three of which        *)
(* forward to an upstream service (CoinGecko, Moralis, Telegram).          *)
(*                                                                         *)
(* Python values are tagged records, so that None, False, 0, "" and the    *)
(* empty containers stay distinct and Python's truthiness and == can be    *)
(* computed as Python computes them.  A str is a sequence of characters.   *)
(*                                                                         *)
(* A view is split where it blocks: Receive runs it up to its return or    *)
(* its upstream call, Complete from the return of that call on.  Spec      *)
(* serves one request at a time over every environment and a wide range of *)
(* requests and upstream answers; SpecThreaded serves MaxWorkers requests  *)
(* concurrently over a core of them.                                       *)
(***************************************************************************)
EXTENDS Integers, Sequences, FiniteSets, TLC

VARIABLES
    config,       \* the module-level globals read from the environment
    debug,        \* TRUE when started through __main__ (app.run(debug=True))
    legacyFlask,  \* TRUE for a Flask whose get_json() returns None on a non-JSON mimetype
    threads,      \* the request threads the server runs
    pc,           \* per thread: "idle", "upstream" (blocked in requests.get/post), "done"
    req,          \* per thread: the request being served
    calls,        \* per thread: the upstream calls issued for the request
    up,           \* per thread: the outcome of the upstream call
    resp,         \* per thread: the response produced
    now,          \* per thread: the reading of datetime.now() taken for the request
    stdout        \* per thread: what the request printed

vars == <<config, debug, legacyFlask, threads, pc, req, calls, up, resp, now, stdout>>

----------------------------------------------------------------------------
(* Bounds *)

MaxWorkers == 2     \* threads of the threaded server
MaxTokens == 2      \* length of an upstream token list
MaxClock == 1       \* readings of the clock

----------------------------------------------------------------------------
(* Python values *)

None == [t |-> "None"]
PyBool(b) == [t |-> "bool", b |-> b]
PyInt(n) == [t |-> "int", n |-> n]
PyStr(s) == [t |-> "str", s |-> s]
PyList(l) == [t |-> "list", l |-> l]
PyDict(d) == [t |-> "dict", d |-> d]

EmptyDict == [k \in {} |-> None]
Nothing == [t |-> "nothing"]

\* bool(v) / `not v`
Truthy(v) ==
    CASE v.t = "None" -> FALSE
      [] v.t = "bool" -> v.b
      [] v.t = "int" -> v.n # 0
      [] v.t = "str" -> Len(v.s) > 0
      [] v.t = "list" -> Len(v.l) > 0
      [] v.t = "dict" -> DOMAIN v.d # {}

\* v == True : bool is a subclass of int, so 1 == True
EqTrue(v) ==
    CASE v.t = "bool" -> v.b
      [] v.t = "int" -> v.n = 1
      [] OTHER -> FALSE

\* d.get(k, default) on the mapping of a dict
Get(d, k, default) == IF k \in DOMAIN d THEN d[k] ELSE default

LowerChar(c) ==
    CASE c = "A" -> "a"
      [] c = "B" -> "b"
      [] OTHER -> c

\* str.lower()
Lower(s) == [i \in DOMAIN s |-> LowerChar(s[i])]

\* sub in s, for strs
Contains(s, sub) ==
    \E i \in 0..(Len(s) - Len(sub)) : SubSeq(s, i + 1, i + Len(sub)) = sub

----------------------------------------------------------------------------
(* The literals of the source *)

k_message == <<"m", "e", "s", "s", "a", "g", "e">>
k_result == <<"r", "e", "s", "u", "l", "t">>
k_usd == <<"u", "s", "d">>
k_verified_contract ==
    <<"v", "e", "r", "i", "f", "i", "e", "d", "_", "c", "o", "n", "t", "r", "a", "c", "t">>
k_token_address ==
    <<"t", "o", "k", "e", "n", "_", "a", "d", "d", "r", "e", "s", "s">>
k_address == <<"a", "d", "d", "r", "e", "s", "s">>
k_symbol == <<"s", "y", "m", "b", "o", "l">>
s_true == <<"t", "r", "u", "e">>
s_hi == <<"h", "i">>

----------------------------------------------------------------------------
(* The environment the process is started in *)

\* os.getenv(name): None when unset, else the value, which may be empty
EnvValues == {None, PyStr(<<>>), PyStr(<<"k">>)}
AddrValues == {None, PyStr(<<"u">>)}

ConfigSpace ==
    [MORALIS_API_KEY : EnvValues, COINGECKO_API_KEY : EnvValues,
     TELEGRAM_BOT_TOKEN : EnvValues, TELEGRAM_CHAT_ID : EnvValues,
     USDT_ADDRESS : AddrValues, SPENDER_ADDRESS : AddrValues]

----------------------------------------------------------------------------
(* Requests a client can send *)

ROUTES ==
    [p \in {"/health", "/api/token-price", "/api/wallet-tokens",
            "/api/send-telegram", "/api/config", "/webhook"} |->
        IF p \in {"/api/send-telegram", "/webhook"} THEN "POST" ELSE "GET"]

Paths == DOMAIN ROUTES \cup {"/nope"}

s_Ab == <<"A", "b">>
s_ab == <<"a", "b">>

\* request.args
QueryArgs ==
    {EmptyDict,
     k_token_address :> PyStr(<<>>), k_token_address :> PyStr(s_Ab),
     k_token_address :> PyStr(s_ab),
     k_address :> PyStr(<<>>), k_address :> PyStr(s_Ab)}

\* JSON documents a client can post
BodyValues ==
    {None, PyBool(FALSE), PyBool(TRUE), PyInt(0), PyInt(1),
     PyStr(<<>>), PyStr(k_message), PyStr(s_hi),
     PyList(<<>>), PyList(<<PyStr(k_message)>>), PyList(<<PyInt(0)>>),
     PyDict(EmptyDict), PyDict(k_message :> PyStr(s_hi)),
     PyDict(k_message :> PyStr(<<>>)), PyDict(k_message :> None),
     PyDict(k_usd :> PyInt(1))}

NoBody == [kind |-> "none"]        \* no body and no JSON content type
BadBody == [kind |-> "badjson"]    \* JSON content type, body empty or malformed
JsonBody(v) == [kind |-> "json", v |-> v]

Bodies == {NoBody, BadBody} \cup {JsonBody(v) : v \in BodyValues}

Requests ==
    [method : {"GET"}, path : Paths, args : QueryArgs, body : {NoBody}]
    \cup [method : {"POST"}, path : Paths, args : {EmptyDict}, body : Bodies]

CoreRequests ==
    { r \in Requests :
        /\ r.args \in {EmptyDict, k_token_address :> PyStr(s_Ab), k_address :> PyStr(s_Ab)}
        /\ r.body \in {NoBody, JsonBody(PyDict(k_message :> PyStr(s_hi))),
                        JsonBody(PyDict(k_message :> PyStr(<<>>))), JsonBody(PyInt(1))}
        /\ r.path \in DOMAIN ROUTES => r.method = ROUTES[r.path] }
        \cup {[method |-> "GET", path |-> "/webhook", args |-> EmptyDict, body |-> NoBody]}

----------------------------------------------------------------------------
(* What an upstream call can come back with *)

BadJson == [t |-> "invalid"]       \* response.json() raises
Raised == [kind |-> "raise"]       \* requests.get/post raises (no connection, TLS, ...)
Completed(code, json) == [kind |-> "response", status_code |-> code, json |-> json]

StatusCodes == {200, 204, 404, 500}

PriceBodies ==
    {BadJson, PyList(<<>>), PyDict(EmptyDict),
     PyDict(s_ab :> PyDict(k_usd :> PyInt(1))),
     PyDict(s_Ab :> PyDict(k_usd :> PyInt(2))),
     PyDict((s_ab :> PyDict(k_usd :> PyInt(1))) @@ (s_Ab :> PyDict(k_usd :> PyInt(2)))),
     PyDict(s_ab :> PyDict(EmptyDict)),
     PyDict(s_ab :> PyDict(k_usd :> None)),
     PyDict(s_ab :> None)}

tokA == PyDict((k_verified_contract :> PyBool(TRUE)) @@ (k_symbol :> PyStr(<<"A">>)))
tokB == PyDict((k_verified_contract :> PyBool(TRUE)) @@ (k_symbol :> PyStr(<<"B">>)))

TokenEntries ==
    {tokA, tokB,
     PyDict(k_verified_contract :> PyBool(FALSE)),
     PyDict(k_verified_contract :> None),
     PyDict(k_verified_contract :> PyInt(1)),
     PyDict(k_verified_contract :> PyStr(s_true)),
     PyDict(k_symbol :> PyStr(<<"A">>)),
     None}

TokenLists == UNION {[1..n -> TokenEntries] : n \in 0..MaxTokens}

WalletBodies ==
    {BadJson, PyDict(EmptyDict), PyDict(k_result :> None), PyDict(k_symbol :> PyList(<<>>))}
    \cup {PyList(l) : l \in TokenLists}
    \cup {PyDict(k_result :> PyList(l)) : l \in TokenLists}

CoreWalletBodies ==
    {PyList(<<tokA>>), PyDict(k_result :> PyList(<<tokA>>))}

Outcomes(bodies) ==
    {Raised} \cup {Completed(c, PyDict(EmptyDict)) : c \in StatusCodes \ {200}}
             \cup {Completed(200, b) : b \in bodies}

\* the inputs a specification explores
Wide ==
    [requests |-> Requests, price |-> Outcomes(PriceBodies),
     wallet |-> Outcomes(WalletBodies), telegram |-> Outcomes({PyDict(EmptyDict)})]

Core ==
    [requests |-> CoreRequests,
     price |-> {Raised, Completed(404, PyDict(EmptyDict)),
                Completed(200, PyDict(s_ab :> PyDict(k_usd :> PyInt(1))))},
     wallet |-> {Raised, Completed(500, PyDict(EmptyDict))}
                \cup {Completed(200, b) : b \in CoreWalletBodies},
     telegram |-> {Raised, Completed(200, PyDict(EmptyDict)), Completed(404, PyDict(EmptyDict))}]

----------------------------------------------------------------------------
(* What a view function can do: return a response, block in an upstream    *)
(* call, abort with an HTTP error, or let an exception escape.             *)

\* return jsonify(body), status
Return(body, status) ==
    [k |-> "return", printed |-> <<>>,
     response |-> [status |-> status, json |-> TRUE, by |-> "view", body |-> body]]
Call(c) == [k |-> "call", call |-> c]
Abort(code) == [k |-> "abort", code |-> code]
Raise(exc) == [k |-> "raise", exc |-> exc]

Digits == <<"0", "1", "2", "3", "4", "5", "6", "7", "8", "9">>

\* datetime.isoformat(), of a clock that counts from 0
isoformat(reading) == <<"T", Digits[(reading % 10) + 1]>>

\* request.get_json()
get_json(request, legacy) ==
    CASE request.body.kind = "none" ->
            IF legacy THEN [ok |-> TRUE, v |-> None] ELSE [ok |-> FALSE, code |-> 415]
      [] request.body.kind = "badjson" -> [ok |-> FALSE, code |-> 400]
      [] request.body.kind = "json" -> [ok |-> TRUE, v |-> request.body.v]

\* k in data, for data a dict, a list or a str
In(k, data) ==
    CASE data.t = "dict" -> k \in DOMAIN data.d
      [] data.t = "list" -> \E i \in DOMAIN data.l : data.l[i] = PyStr(k)
      [] data.t = "str" -> Contains(data.s, k)

health_check(reading) ==
    Return([status |-> "healthy", timestamp |-> isoformat(reading)], 200)

\* get_token_price testing the key with `is None` instead of `not`
get_token_price_is_none(request, cfg) ==
    LET token_address == Get(request.args, k_token_address, None) IN
    IF ~Truthy(token_address)
    THEN Return([error |-> "token_address parameter is required"], 400)
    ELSE IF cfg.COINGECKO_API_KEY = None
    THEN Return([error |-> "CoinGecko API key not configured"], 500)
    ELSE Call([method |-> "GET", url |-> "api.coingecko.com",
               contract_addresses |-> token_address,
               key |-> cfg.COINGECKO_API_KEY])

get_token_price(request, cfg) ==
    LET token_address == Get(request.args, k_token_address, None) IN
    IF ~Truthy(token_address)
    THEN Return([error |-> "token_address parameter is required"], 400)
    ELSE IF ~Truthy(cfg.COINGECKO_API_KEY)
    THEN Return([error |-> "CoinGecko API key not configured"], 500)
    ELSE Call([method |-> "GET", url |-> "api.coingecko.com",
               contract_addresses |-> token_address,
               key |-> cfg.COINGECKO_API_KEY])

\* get_token_price_response looking the address up as supplied
get_token_price_response_as_supplied(request, response) ==
    LET token_address == Get(request.args, k_token_address, None) IN
    IF response.kind = "raise"
    THEN Return([error |-> "ConnectionError"], 500)
    ELSE IF response.status_code = 200
    THEN LET data == response.json IN
         IF data = BadJson THEN Return([error |-> "JSONDecodeError"], 500)
         ELSE IF data.t # "dict" THEN Return([error |-> "AttributeError"], 500)
         ELSE LET token_data == Get(data.d, token_address.s, PyDict(EmptyDict)) IN
              IF token_data.t # "dict" THEN Return([error |-> "AttributeError"], 500)
              ELSE Return([price |-> Get(token_data.d, k_usd, PyInt(0)),
                           token_address |-> token_address], 200)
    ELSE Return([error |-> "Failed to fetch price",
                 status_code |-> response.status_code], 500)

\* get_token_price from the return of requests.get on
get_token_price_response(request, response) ==
    LET token_address == Get(request.args, k_token_address, None) IN
    IF response.kind = "raise"
    THEN Return([error |-> "ConnectionError"], 500)
    ELSE IF response.status_code = 200
    THEN LET data == response.json IN
         IF data = BadJson THEN Return([error |-> "JSONDecodeError"], 500)
         ELSE IF data.t # "dict" THEN Return([error |-> "AttributeError"], 500)
         ELSE LET token_data == Get(data.d, Lower(token_address.s), PyDict(EmptyDict)) IN
              IF token_data.t # "dict" THEN Return([error |-> "AttributeError"], 500)
              ELSE Return([price |-> Get(token_data.d, k_usd, PyInt(0)),
                           token_address |-> token_address], 200)
    ELSE Return([error |-> "Failed to fetch price",
                 status_code |-> response.status_code], 500)

get_wallet_tokens(request, cfg) ==
    LET address == Get(request.args, k_address, None) IN
    IF ~Truthy(address)
    THEN Return([error |-> "address parameter is required"], 400)
    ELSE IF ~Truthy(cfg.MORALIS_API_KEY)
    THEN Return([error |-> "Moralis API key not configured"], 500)
    ELSE Call([method |-> "GET", url |-> "deep-index.moralis.io",
               address |-> address, key |-> cfg.MORALIS_API_KEY])

\* [token for token in tokens if token.get('verified_contract') == True], on a list of dicts
verified(tokens) ==
    SelectSeq(tokens, LAMBDA token : EqTrue(Get(token.d, k_verified_contract, None)))

\* get_wallet_tokens from the return of requests.get on
get_wallet_tokens_response(request, response) ==
    LET address == Get(request.args, k_address, None) IN
    IF response.kind = "raise"
    THEN Return([error |-> "ConnectionError"], 500)
    ELSE IF response.status_code = 200
    THEN LET data == response.json IN
         IF data = BadJson THEN Return([error |-> "JSONDecodeError"], 500)
         ELSE IF data.t # "dict" THEN Return([error |-> "AttributeError"], 500)
         ELSE LET tokens == Get(data.d, k_result, data) IN
              CASE tokens.t \in {"None", "bool", "int"} ->
                      Return([error |-> "TypeError"], 500)
                [] tokens.t = "str" ->
                      IF tokens.s = <<>>
                      THEN Return([tokens |-> <<>>, address |-> address, total_tokens |-> 0], 200)
                      ELSE Return([error |-> "AttributeError"], 500)
                [] tokens.t = "dict" ->
                      IF DOMAIN tokens.d = {}
                      THEN Return([tokens |-> <<>>, address |-> address, total_tokens |-> 0], 200)
                      ELSE Return([error |-> "AttributeError"], 500)
                [] tokens.t = "list" ->
                      IF \E i \in DOMAIN tokens.l : tokens.l[i].t # "dict"
                      THEN Return([error |-> "AttributeError"], 500)
                      ELSE LET verified_tokens == verified(tokens.l) IN
                           Return([tokens |-> verified_tokens, address |-> address,
                                   total_tokens |-> Len(verified_tokens)], 200)
    ELSE Return([error |-> "Failed to fetch wallet tokens",
                 status_code |-> response.status_code], 500)

send_telegram(request, cfg, legacy) ==
    LET j == get_json(request, legacy) IN
    IF ~j.ok THEN Abort(j.code)
    ELSE LET data == j.v IN
         IF ~Truthy(data) THEN Return([error |-> "message is required"], 400)
         ELSE IF data.t \notin {"dict", "list", "str"} THEN Raise("TypeError")
         ELSE IF ~In(k_message, data) THEN Return([error |-> "message is required"], 400)
         ELSE IF ~Truthy(cfg.TELEGRAM_BOT_TOKEN) \/ ~Truthy(cfg.TELEGRAM_CHAT_ID)
         THEN Return([error |-> "Telegram credentials not configured"], 500)
         ELSE IF data.t # "dict" THEN Return([error |-> "TypeError"], 500)
         ELSE Call([method |-> "POST", url |-> "api.telegram.org",
                    key |-> cfg.TELEGRAM_BOT_TOKEN, chat_id |-> cfg.TELEGRAM_CHAT_ID,
                    text |-> data.d[k_message]])

\* send_telegram_response answering with the upstream's status
send_telegram_response_passthrough(request, response) ==
    IF response.kind = "raise"
    THEN Return([error |-> "ConnectionError"], 500)
    ELSE IF response.status_code = 200
    THEN Return([success |-> TRUE, message |-> "Message sent successfully"], 200)
    ELSE Return([error |-> "Failed to send message",
                 status_code |-> response.status_code], response.status_code)

\* send_telegram from the return of requests.post on
send_telegram_response(request, response) ==
    IF response.kind = "raise"
    THEN Return([error |-> "ConnectionError"], 500)
    ELSE IF response.status_code = 200
    THEN Return([success |-> TRUE, message |-> "Message sent successfully"], 200)
    ELSE Return([error |-> "Failed to send message",
                 status_code |-> response.status_code], 500)

\* get_config reporting the Moralis key itself
get_config_leaking(cfg) ==
    Return([usdt_address |-> cfg.USDT_ADDRESS,
            spender_address |-> cfg.SPENDER_ADDRESS,
            has_moralis_key |-> cfg.MORALIS_API_KEY,
            has_coingecko_key |-> Truthy(cfg.COINGECKO_API_KEY),
            has_telegram_config |->
                Truthy(cfg.TELEGRAM_BOT_TOKEN) /\ Truthy(cfg.TELEGRAM_CHAT_ID)], 200)

get_config(cfg) ==
    Return([usdt_address |-> cfg.USDT_ADDRESS,
            spender_address |-> cfg.SPENDER_ADDRESS,
            has_moralis_key |-> Truthy(cfg.MORALIS_API_KEY),
            has_coingecko_key |-> Truthy(cfg.COINGECKO_API_KEY),
            has_telegram_config |->
                Truthy(cfg.TELEGRAM_BOT_TOKEN) /\ Truthy(cfg.TELEGRAM_CHAT_ID)], 200)

webhook(request, legacy) ==
    LET j == get_json(request, legacy) IN
    IF ~j.ok THEN Abort(j.code)
    ELSE LET data == j.v IN
         IF ~Truthy(data) THEN Return([error |-> "No data provided"], 400)
         ELSE [Return([success |-> TRUE, message |-> "Webhook processed successfully"], 200)
                 EXCEPT !.printed = <<[text |-> "Webhook received: ", dumps |-> data]>>]

\* @app.errorhandler(404)
not_found ==
    [status |-> 404, json |-> TRUE, by |-> "errorhandler",
     body |-> [error |-> "Endpoint not found"]]

\* @app.errorhandler(500)
internal_error ==
    [status |-> 500, json |-> TRUE, by |-> "errorhandler",
     body |-> [error |-> "Internal server error"]]

\* werkzeug's own page for an HTTP error no handler is registered for, and the
\* debugger's page for an exception that propagates
html(status) ==
    [status |-> status, json |-> FALSE, by |-> "framework", body |-> [html |-> status]]

\* the URL map: the view bound to the path and method
dispatch_request(request, cfg, legacy, reading) ==
    IF request.path \notin DOMAIN ROUTES THEN Abort(404)
    ELSE IF request.method # ROUTES[request.path] THEN Abort(405)
    ELSE CASE request.path = "/health" -> health_check(reading)
           [] request.path = "/api/token-price" -> get_token_price(request, cfg)
           [] request.path = "/api/wallet-tokens" -> get_wallet_tokens(request, cfg)
           [] request.path = "/api/send-telegram" -> send_telegram(request, cfg, legacy)
           [] request.path = "/api/config" -> get_config(cfg)
           [] request.path = "/webhook" -> webhook(request, legacy)

\* resume_request reading the upstream response from a variable the threads share
resume_request_shared(request, response) ==
    LET others == { v \in threads : pc[v] = "done" /\ req[v].path = request.path
                                     /\ up[v] # Nothing } IN
    LET seen == IF others = {} THEN response ELSE up[CHOOSE v \in others : TRUE] IN
    CASE request.path = "/api/token-price" -> get_token_price_response(request, seen)
      [] request.path = "/api/wallet-tokens" -> get_wallet_tokens_response(request, seen)
      [] request.path = "/api/send-telegram" -> send_telegram_response(request, seen)

\* the view resumed when its upstream call returns
resume_request(request, response) ==
    CASE request.path = "/api/token-price" -> get_token_price_response(request, response)
      [] request.path = "/api/wallet-tokens" -> get_wallet_tokens_response(request, response)
      [] request.path = "/api/send-telegram" -> send_telegram_response(request, response)

\* Flask's handling of what a view did not return
finalize_request(result, dbg) ==
    CASE result.k = "return" -> result.response
      [] result.k = "abort" -> IF result.code = 404 THEN not_found ELSE html(result.code)
      [] result.k = "raise" -> IF dbg THEN html(500) ELSE internal_error

----------------------------------------------------------------------------
(* The server *)

Workers == 1..MaxWorkers

Idle ==
    /\ pc = [w \in Workers |-> "idle"]
    /\ req = [w \in Workers |-> Nothing]
    /\ calls = [w \in Workers |-> <<>>]
    /\ up = [w \in Workers |-> Nothing]
    /\ resp = [w \in Workers |-> Nothing]
    /\ now = [w \in Workers |-> -1]
    /\ stdout = [w \in Workers |-> <<>>]

\* one request at a time, in any environment
Init ==
    /\ config \in ConfigSpace
    /\ debug \in BOOLEAN
    /\ legacyFlask \in BOOLEAN
    /\ threads = {1}
    /\ Idle

\* every credential group configured or not, behind a threaded WSGI server
ThreadedConfigs ==
    { c \in ConfigSpace :
        /\ \A f \in DOMAIN c : c[f] # PyStr(<<>>)
        /\ c.TELEGRAM_BOT_TOKEN = c.TELEGRAM_CHAT_ID
        /\ c.USDT_ADDRESS = c.SPENDER_ADDRESS
        /\ c.USDT_ADDRESS # None }

InitThreaded ==
    /\ config \in ThreadedConfigs
    /\ debug = FALSE
    /\ legacyFlask = FALSE
    /\ threads = Workers
    /\ Idle

ReadsClock(request) == request.path = "/health" /\ request.method = "GET"

\* the requests the URL map binds to the view of `path`
Bound(requests, path) ==
    { r \in requests : r.path = path /\ r.method = ROUTES[path] }

Unbound(requests) ==
    { r \in requests : r.path \notin DOMAIN ROUTES \/ r.method # ROUTES[r.path] }

\* A request arrives on a free thread and its view runs until it returns or
\* blocks in its upstream call.
Receive(w, requests) ==
    /\ pc[w] = "idle"
    /\ \E request \in requests :
       \E reading \in IF ReadsClock(request) THEN 0..MaxClock ELSE {-1} :
          LET result == dispatch_request(request, config, legacyFlask, reading) IN
          /\ req' = [req EXCEPT ![w] = request]
          /\ now' = [now EXCEPT ![w] = reading]
          /\ IF result.k = "call"
             THEN /\ pc' = [pc EXCEPT ![w] = "upstream"]
                  /\ calls' = [calls EXCEPT ![w] = Append(@, result.call)]
                  /\ UNCHANGED <<resp, stdout>>
             ELSE /\ pc' = [pc EXCEPT ![w] = "done"]
                  /\ resp' = [resp EXCEPT ![w] = finalize_request(result, debug)]
                  /\ stdout' = [stdout EXCEPT ![w] =
                                   IF result.k = "return" THEN result.printed ELSE <<>>]
                  /\ UNCHANGED calls
    /\ UNCHANGED <<config, debug, legacyFlask, threads, up>>

\* The upstream call of a view blocked in it returns or raises, and the view
\* finishes.
Complete(w, path, outcomes) ==
    /\ pc[w] = "upstream"
    /\ req[w].path = path
    /\ \E response \in outcomes :
          /\ up' = [up EXCEPT ![w] = response]
          /\ resp' = [resp EXCEPT ![w] =
                         finalize_request(resume_request(req[w], response), debug)]
    /\ pc' = [pc EXCEPT ![w] = "done"]
    /\ UNCHANGED <<config, debug, legacyFlask, threads, req, calls, now, stdout>>

HealthCheck(U) == \E w \in threads : Receive(w, Bound(U.requests, "/health"))
GetTokenPrice(U) == \E w \in threads : Receive(w, Bound(U.requests, "/api/token-price"))
GetWalletTokens(U) == \E w \in threads : Receive(w, Bound(U.requests, "/api/wallet-tokens"))
SendTelegram(U) == \E w \in threads : Receive(w, Bound(U.requests, "/api/send-telegram"))
GetConfig(U) == \E w \in threads : Receive(w, Bound(U.requests, "/api/config"))
Webhook(U) == \E w \in threads : Receive(w, Bound(U.requests, "/webhook"))
NoRoute(U) == \E w \in threads : Receive(w, Unbound(U.requests))

TokenPriceReturns(U) == \E w \in threads : Complete(w, "/api/token-price", U.price)
WalletTokensReturns(U) == \E w \in threads : Complete(w, "/api/wallet-tokens", U.wallet)
TelegramReturns(U) == \E w \in threads : Complete(w, "/api/send-telegram", U.telegram)

\* The response is sent and the thread is free again.
Release ==
    \E w \in threads :
        /\ pc[w] = "done"
        /\ pc' = [pc EXCEPT ![w] = "idle"]
        /\ req' = [req EXCEPT ![w] = Nothing]
        /\ calls' = [calls EXCEPT ![w] = <<>>]
        /\ up' = [up EXCEPT ![w] = Nothing]
        /\ resp' = [resp EXCEPT ![w] = Nothing]
        /\ now' = [now EXCEPT ![w] = -1]
        /\ stdout' = [stdout EXCEPT ![w] = <<>>]
        /\ UNCHANGED <<config, debug, legacyFlask, threads>>

Serve(U) ==
    \/ HealthCheck(U)
    \/ GetTokenPrice(U)
    \/ GetWalletTokens(U)
    \/ SendTelegram(U)
    \/ GetConfig(U)
    \/ Webhook(U)
    \/ NoRoute(U)
    \/ TokenPriceReturns(U)
    \/ WalletTokensReturns(U)
    \/ TelegramReturns(U)
    \/ Release

Next == Serve(Wide)

NextThreaded == Serve(Core)

Spec == Init /\ [][Next]_vars

SpecThreaded == InitThreaded /\ [][NextThreaded]_vars

----------------------------------------------------------------------------
(* Vocabulary of the properties *)

Forwarding == {"/api/token-price", "/api/wallet-tokens", "/api/send-telegram"}

\* thread w is serving, or has served, a request the URL map bound to `path`
Handling(w, path) ==
    /\ pc[w] # "idle"
    /\ req[w].path = path
    /\ req[w].method = ROUTES[path]

Answered(w, path) == Handling(w, path) /\ pc[w] = "done"

\* the response is JSON and its body an object with an `error` key
ErrorJson(r) == r.json /\ "error" \in DOMAIN r.body

\* a value os.getenv gave that is neither unset nor empty
Present(v) == v # None /\ v # PyStr(<<>>)

\* the query parameter `name` is there and not empty
HasParam(request, name) ==
    name \in DOMAIN request.args /\ request.args[name] # PyStr(<<>>)

\* the request got past the checks its view makes on its input
PassesValidation(request) ==
    CASE request.path = "/api/token-price" -> HasParam(request, k_token_address)
      [] request.path = "/api/wallet-tokens" -> HasParam(request, k_address)
      [] request.path = "/api/send-telegram" ->
            /\ request.body.kind = "json"
            /\ request.body.v.t \in {"dict", "list", "str"}
            /\ Truthy(request.body.v)
            /\ In(k_message, request.body.v)

\* a credential the view of `path` requires is unset or empty
CredentialMissing(cfg, path) ==
    CASE path = "/api/token-price" -> ~Present(cfg.COINGECKO_API_KEY)
      [] path = "/api/wallet-tokens" -> ~Present(cfg.MORALIS_API_KEY)
      [] path = "/api/send-telegram" ->
            ~Present(cfg.TELEGRAM_BOT_TOKEN) \/ ~Present(cfg.TELEGRAM_CHAT_ID)

----------------------------------------------------------------------------
(* C1 *)

\* C1: on the three forwarding endpoints, a request that passes input
\* validation while a credential its endpoint requires is unset or empty is
\* answered 500 with an `error` field, and no upstream call is issued for it.
C1_FailFast ==
    \A w \in threads : \A path \in Forwarding :
        (/\ Handling(w, path)
         /\ PassesValidation(req[w])
         /\ CredentialMissing(config, path))
        => /\ pc[w] = "done"
           /\ resp[w].status = 500
           /\ ErrorJson(resp[w])
           /\ calls[w] = <<>>

\* a message was posted while the bot token is set and the chat id is empty
C1_Witness ==
    \E w \in threads :
        /\ Answered(w, "/api/send-telegram")
        /\ req[w].body = JsonBody(PyDict(k_message :> PyStr(s_hi)))
        /\ Present(config.TELEGRAM_BOT_TOKEN)
        /\ config.TELEGRAM_CHAT_ID = PyStr(<<>>)
        /\ resp[w].status = 500

----------------------------------------------------------------------------
(* C2 *)

\* C2: on the three forwarding endpoints, an upstream call that completes
\* with a status other than 200 is answered 500 with an `error` field and a
\* `status_code` field equal to the upstream status; the views themselves
\* only ever answer 200, 400 or 500.
C2_UpstreamStatusInBody ==
    \A w \in threads : \A path \in Forwarding :
        Answered(w, path) =>
            /\ (up[w] # Nothing /\ up[w].kind = "response" /\ up[w].status_code # 200)
                  => /\ resp[w].status = 500
                     /\ ErrorJson(resp[w])
                     /\ "status_code" \in DOMAIN resp[w].body
                     /\ resp[w].body.status_code = up[w].status_code
            /\ resp[w].by = "view" => resp[w].status \in {200, 400, 500}

\* the Telegram API answered 404 to a message the gateway forwarded
C2_Witness ==
    \E w \in threads :
        /\ Answered(w, "/api/send-telegram")
        /\ up[w] = Completed(404, PyDict(EmptyDict))
        /\ resp[w].status = 500
        /\ resp[w].body.status_code = 404

----------------------------------------------------------------------------
(* C3 *)

\* the list an upstream document carries, directly or under `result`
TokenListOf(json) ==
    CASE json.t = "list" -> json.l
      [] json.t = "dict" /\ k_result \in DOMAIN json.d /\ json.d[k_result].t = "list" ->
            json.d[k_result].l
      [] OTHER -> <<>>

\* a list of token objects, as the top-level value or under `result`
IsTokenDocument(json) ==
    /\ json # BadJson
    /\ \/ json.t = "list"
       \/ json.t = "dict" /\ k_result \in DOMAIN json.d /\ json.d[k_result].t = "list"
    /\ \A i \in DOMAIN TokenListOf(json) : TokenListOf(json)[i].t = "dict"

\* the entries whose verified_contract is the boolean true, in order
StrictlyVerified(tokens) ==
    SelectSeq(tokens, LAMBDA token :
        /\ k_verified_contract \in DOMAIN token.d
        /\ token.d[k_verified_contract] = PyBool(TRUE))

\* C3: /api/wallet-tokens answers an upstream 200 that carries a list of token
\* objects, as the top-level JSON value or under `result`, with a 200 success
\* envelope built from that list.
C3_BothShapes ==
    \A w \in threads :
        (/\ Answered(w, "/api/wallet-tokens")
         /\ up[w] # Nothing /\ up[w].kind = "response" /\ up[w].status_code = 200
         /\ IsTokenDocument(up[w].json))
        => /\ resp[w].status = 200
           /\ DOMAIN resp[w].body = {"tokens", "address", "total_tokens"}
           /\ resp[w].body.total_tokens = Len(resp[w].body.tokens)

----------------------------------------------------------------------------
(* C4 *)

\* the field the view requires is missing from the request, or empty; for
\* /api/send-telegram the request carries a JSON object
FieldMissing(request) ==
    CASE request.path = "/api/token-price" -> ~HasParam(request, k_token_address)
      [] request.path = "/api/wallet-tokens" -> ~HasParam(request, k_address)
      [] request.path = "/api/send-telegram" ->
            /\ request.body.kind = "json"
            /\ request.body.v.t = "dict"
            /\ \/ k_message \notin DOMAIN request.body.v.d
               \/ request.body.v.d[k_message] \in {None, PyStr(<<>>)}

\* C4: under every configuration, a request to a forwarding endpoint whose
\* required field is missing or empty (token_address, address, or `message` in
\* the posted JSON object, a `message` that is the empty string or null
\* included) is answered 400 with an `error` field and no upstream call is made.
C4_MissingFieldIs400 ==
    \A w \in threads : \A path \in Forwarding :
        (Handling(w, path) /\ FieldMissing(req[w]))
        => /\ pc[w] = "done"
           /\ resp[w].status = 400
           /\ ErrorJson(resp[w])
           /\ calls[w] = <<>>

----------------------------------------------------------------------------
(* C5 *)

\* C5: every response the server produces is JSON, and every response with a
\* status of 400 or more is a JSON object with an `error` key.
C5_AlwaysJson ==
    \A w \in threads :
        pc[w] = "done" =>
            /\ resp[w].json
            /\ resp[w].status >= 400 => "error" \in DOMAIN resp[w].body

----------------------------------------------------------------------------
(* C6 *)

\* a JSON value that is not null nor an empty string, array or object
NonEmptyJson(v) == v \notin {None, PyStr(<<>>), PyList(<<>>), PyDict(EmptyDict)}

\* C6: POST /webhook answers every JSON value that was supplied and is not
\* empty (a non-empty object or array, but also 0 and false) with
\* {success: true, message} after logging the payload unchanged, and an empty
\* one with 400 and an `error` field.
C6_WebhookAcceptsAnyJson ==
    \A w \in threads :
        (Answered(w, "/webhook") /\ req[w].body.kind = "json") =>
            IF NonEmptyJson(req[w].body.v)
            THEN /\ resp[w].status = 200
                 /\ DOMAIN resp[w].body = {"success", "message"}
                 /\ resp[w].body.success = TRUE
                 /\ Len(stdout[w]) = 1
                 /\ stdout[w][1].dumps = req[w].body.v
            ELSE resp[w].status = 400 /\ ErrorJson(resp[w])

----------------------------------------------------------------------------
(* C7 *)

\* the token address of the request and the document a 200 from CoinGecko carried
PriceAnswered(w) ==
    /\ Answered(w, "/api/token-price")
    /\ up[w] # Nothing /\ up[w].kind = "response" /\ up[w].status_code = 200
    /\ up[w].json # BadJson
    /\ up[w].json.t = "dict"

\* the lower-cased token address of the request
PriceKey(w) == Lower(req[w].args[k_token_address].s)

\* the document has no entry under that key, or one that is a JSON object
EntryWellFormed(w) ==
    PriceKey(w) \in DOMAIN up[w].json.d => up[w].json.d[PriceKey(w)].t = "dict"

\* the `usd` value of that entry, 0 when the entry or its `usd` is absent
ExpectedPrice(w) ==
    LET entry == Get(up[w].json.d, PriceKey(w), None) IN
    IF entry.t = "dict" /\ k_usd \in DOMAIN entry.d THEN entry.d[k_usd] ELSE PyInt(0)

PriceEnvelope(w) ==
    /\ resp[w].status = 200
    /\ DOMAIN resp[w].body = {"price", "token_address"}
    /\ resp[w].body.token_address = req[w].args[k_token_address]
    /\ resp[w].body.price = ExpectedPrice(w)

\* C7 as claimed: every upstream 200 that carries a JSON object is answered 200
\* with the token address as supplied and the `usd` value under the lower-cased
\* address, or 0 when that key or its `usd` entry is absent.
C7_Original ==
    \A w \in threads : PriceAnswered(w) => PriceEnvelope(w)

\* C7, amended: the same, for a JSON object whose entry under the lower-cased
\* address, when there is one, is itself a JSON object; an entry of any other
\* kind (null, say) is answered 500 with an `error` field.  In particular
\* token_address=Ab against {"ab": {"usd": 1}} is answered {price: 1,
\* token_address: "Ab"}.
C7_PriceByLowerCasedKey ==
    \A w \in threads :
        PriceAnswered(w) =>
            /\ IF EntryWellFormed(w)
               THEN PriceEnvelope(w)
               ELSE resp[w].status = 500 /\ ErrorJson(resp[w])
            /\ (/\ req[w].args[k_token_address] = PyStr(<<"A", "b">>)
                /\ up[w].json = PyDict(<<"a", "b">> :> PyDict(k_usd :> PyInt(1))))
                  => /\ resp[w].body.price = PyInt(1)
                     /\ resp[w].body.token_address = PyStr(<<"A", "b">>)

\* a mixed-case address was priced from the entry under its lower-cased form
C7_Witness ==
    \E w \in threads :
        /\ PriceAnswered(w)
        /\ req[w].args[k_token_address] = PyStr(<<"A", "b">>)
        /\ up[w].json = PyDict((<<"a", "b">> :> PyDict(k_usd :> PyInt(1)))
                               @@ (<<"A", "b">> :> PyDict(k_usd :> PyInt(2))))
        /\ resp[w].status = 200
        /\ resp[w].body.price = PyInt(1)

----------------------------------------------------------------------------
(* C8 *)

\* C8: when /api/wallet-tokens answers an upstream 200 with its envelope,
\* `tokens` holds exactly the upstream entries whose verified_contract is the
\* boolean true, in upstream order (absent, false, null, 1 and "true" are all
\* excluded), total_tokens is the length of `tokens`, and `address` is the
\* queried address.
C8_OnlyBooleanTrue ==
    \A w \in threads :
        (/\ Answered(w, "/api/wallet-tokens")
         /\ up[w] # Nothing /\ up[w].kind = "response" /\ up[w].status_code = 200
         /\ resp[w].status = 200)
        => /\ resp[w].body.tokens = StrictlyVerified(TokenListOf(up[w].json))
           /\ resp[w].body.total_tokens = Len(resp[w].body.tokens)
           /\ resp[w].body.address = req[w].args[k_address]

----------------------------------------------------------------------------
(* C9 *)

\* configurations that may differ in the values of their secrets
SecretValues == EnvValues \cup {PyStr(<<"j">>)}

AnyConfig ==
    [MORALIS_API_KEY : SecretValues, COINGECKO_API_KEY : SecretValues,
     TELEGRAM_BOT_TOKEN : SecretValues, TELEGRAM_CHAT_ID : SecretValues,
     USDT_ADDRESS : AddrValues, SPENDER_ADDRESS : AddrValues]

Secrets == {"MORALIS_API_KEY", "COINGECKO_API_KEY", "TELEGRAM_BOT_TOKEN", "TELEGRAM_CHAT_ID"}

\* the same addresses and the same secrets set
SamePresence(c, d) ==
    /\ c.USDT_ADDRESS = d.USDT_ADDRESS
    /\ c.SPENDER_ADDRESS = d.SPENDER_ADDRESS
    /\ \A f \in Secrets : Present(c[f]) <=> Present(d[f])

\* C9: the /api/config response depends on which secrets are set, not on their
\* values: any configuration with the same two addresses and the same secrets
\* set gives the identical response; the body has the two addresses and three
\* booleans only, has_telegram_config being true exactly when the bot token and
\* the chat id are both set.
C9_ConfigHidesSecrets ==
    \A w \in threads :
        Answered(w, "/api/config") =>
            /\ \A other \in AnyConfig :
                  SamePresence(config, other)
                      => finalize_request(get_config(other), debug) = resp[w]
            /\ resp[w].status = 200
            /\ DOMAIN resp[w].body =
                  {"usdt_address", "spender_address", "has_moralis_key",
                   "has_coingecko_key", "has_telegram_config"}
            /\ resp[w].body.usdt_address = config.USDT_ADDRESS
            /\ resp[w].body.spender_address = config.SPENDER_ADDRESS
            /\ resp[w].body.has_moralis_key = Present(config.MORALIS_API_KEY)
            /\ resp[w].body.has_coingecko_key = Present(config.COINGECKO_API_KEY)
            /\ resp[w].body.has_telegram_config =
                  (Present(config.TELEGRAM_BOT_TOKEN) /\ Present(config.TELEGRAM_CHAT_ID))

\* /api/config was asked with all four secrets set
C9_Witness ==
    \E w \in threads :
        /\ Answered(w, "/api/config")
        /\ \A f \in Secrets : Present(config[f])
        /\ resp[w].body.has_telegram_config

----------------------------------------------------------------------------
(* C10 *)

Finished == { w \in threads : pc[w] = "done" }

\* no request issued more than one upstream call
AtMostOneCall == \A w \in threads : Len(calls[w]) <= 1

\* requests with the same parameters and body whose upstream calls had the
\* same outcome got the same response, whatever else the server was doing
SameInputsSameResponse ==
    \A v, w \in Finished :
        (req[v] = req[w] /\ up[v] = up[w]) => resp[v] = resp[w]

\* the same, the reading of the clock counted among the inputs of /health
SameInputsAndClockSameResponse ==
    \A v, w \in Finished :
        (req[v] = req[w] /\ up[v] = up[w] /\ now[v] = now[w]) => resp[v] = resp[w]

\* no step changes the configuration read at startup
ConfigNeverChanges == [][config' = config]_vars

\* C10 as claimed: across all interleavings of concurrent requests the
\* configuration is never changed, each response is determined by the
\* request's own parameters and body, the configuration and the outcome of its
\* own upstream call alone, and each request issues at most one upstream call.
C10_Original ==
    /\ [](SameInputsSameResponse /\ AtMostOneCall)
    /\ ConfigNeverChanges

\* C10, amended: the same, with the reading of the clock that /health takes
\* counted among the request's own inputs.
C10_Independent ==
    /\ [](SameInputsAndClockSameResponse /\ AtMostOneCall)
    /\ ConfigNeverChanges

\* two requests for the same price were in flight together, their upstream
\* calls ended alike, and a third thread was answered something else
C10_Witness ==
    \E v, w \in Finished :
        /\ v # w
        /\ req[v] = req[w]
        /\ req[v].path = "/api/token-price"
        /\ up[v] = up[w]
        /\ up[v] # Nothing
        /\ resp[v] = resp[w]

====
